---- MODULE Spec2Model ----
(***************************************************************************)
(* Model of package charset (src/charset/charset.go): the quirks table     *)
(* `charsets`, the resolver charsetEncoding, the stream adapters Reader    *)
(* and Writer, and the extension hook RegisterEncoding.                    *)
(*                                                                         *)
(* A charset name is a sequence of one-character strings, so that          *)
(* strings.ToLower and the "cs" prefix are computed, not assumed.          *)
(* The two external indices (ianaindex.MIME, htmlindex) are inputs of each *)
(* call: `env` says what each of the three possible queries would return.  *)
(***************************************************************************)
EXTENDS Integers, Sequences, FiniteSets, TLC

VARIABLES charsets, last, pc, arg, seen, began, torn, crashed

vars == <<charsets, last, pc, arg, seen, began, torn, crashed>>

(***************************************************************************)
(* Values                                                                  *)
(***************************************************************************)

\* A nil encoding.Encoding (the disabled marker in the table; "no codec"
\* as the result of an index query).
Nil == "nil"

\* A nil error value of an index query.
NilMsg == "<nil>"

\* charmap.ISO8859_1 and unicode.UTF8, the two codecs the seed table names.
ISO8859_1 == "charmap.ISO8859_1"

UTF8 == "unicode.UTF8"

Codecs == {ISO8859_1, UTF8}

UpperLetters == <<"A","B","C","D","E","F","G","H","I","J","K","L","M",
                  "N","O","P","Q","R","S","T","U","V","W","X","Y","Z">>

LowerLetters == <<"a","b","c","d","e","f","g","h","i","j","k","l","m",
                  "n","o","p","q","r","s","t","u","v","w","x","y","z">>

\* The lower-case form of each upper-case letter.
LowerOf ==
    [c \in {UpperLetters[i] : i \in 1..Len(UpperLetters)} |->
        LowerLetters[CHOOSE i \in 1..Len(UpperLetters) : UpperLetters[i] = c]]

\* strings.ToLower on one character.
ToLowerCh(c) == IF c \in DOMAIN LowerOf THEN LowerOf[c] ELSE c

\* The upper-case form of one character (used to build the inputs only).
ToUpperCh(c) ==
    IF \E i \in 1..Len(LowerLetters) : LowerLetters[i] = c
    THEN UpperLetters[CHOOSE i \in 1..Len(LowerLetters) : LowerLetters[i] = c]
    ELSE c

RECURSIVE ToLowerMutant(_)
\* strings.ToLower that lowers the first character only.
ToLowerMutant(s) ==
    IF s = <<>> THEN <<>> ELSE <<ToLowerCh(Head(s))>> \o Tail(s)

RECURSIVE ToLower(_)
\* strings.ToLower(charset), line 39.
ToLower(s) ==
    IF s = <<>> THEN <<>> ELSE <<ToLowerCh(Head(s))>> \o ToLower(Tail(s))

RECURSIVE Variants(_)
\* Every spelling of s in any mixture of upper and lower case.
Variants(s) ==
    IF s = <<>> THEN {<<>>}
    ELSE {<<c>> \o t : c \in {ToLowerCh(Head(s)), ToUpperCh(Head(s))},
                       t \in Variants(Tail(s))}

(***************************************************************************)
(* Names                                                                   *)
(***************************************************************************)

\* "ansi_x3.110-1983", line 27.
AnsiName == <<"a","n","s","i","_","x","3",".","1","1","0","-","1","9","8","3">>

\* "x-utf_8j", line 28.
Utf8jName == <<"x","-","u","t","f","_","8","j">>

\* Names other packages register or callers ask for.
Utf7Lower == <<"u","t","f","-","7">>

Utf7Upper == <<"U","T","F","-","7">>

Utf7Mixed == <<"U","t","f","-","7">>

UnknownName == <<"n","o","p","e">>

\* The names RegisterEncoding is called with.
RegNames == {Utf8jName, Utf7Lower, Utf7Upper}

\* The names Reader and Writer are called with.
ResolveNames ==
    Variants(Utf8jName) \cup Variants(AnsiName)
        \cup {Utf7Lower, Utf7Upper, Utf7Mixed, UnknownName}

\* The streams callers pass in.
RawStreams == {[kind |-> "raw", id |-> "s1"], [kind |-> "raw", id |-> "s2"]}

(***************************************************************************)
(* The external indices                                                    *)
(***************************************************************************)

MimeInvalid == "ianaindex: invalid encoding name"

HtmlInvalid == "htmlindex: invalid encoding name"

\* What one index query returns: a codec, or no codec with an error, or no
\* codec and no error (golang/go#19421, line 54).
Outcomes(errmsg) ==
    {[enc |-> c, err |-> NilMsg] : c \in Codecs}
        \cup {[enc |-> Nil, err |-> errmsg], [enc |-> Nil, err |-> NilMsg]}

\* What the three queries of one call would return.
Envs ==
    [mime : Outcomes(MimeInvalid), mimecs : Outcomes(MimeInvalid),
     html : Outcomes(HtmlInvalid)]

MimeQuery(name) == <<"MIME", name>>

CsQuery(name) == <<"MIME", <<"c","s">> \o name>>

HtmlQuery(name) == <<"HTML", name>>

(***************************************************************************)
(* Errors                                                                  *)
(***************************************************************************)

NilError == [charset |-> <<>>, msg |-> NilMsg]

DisabledMsg == "charset is disabled"

UnsupportedMsg == "unsupported charset"

\* fmt.Errorf("charset %q: ...", charset, ...), lines 41, 52, 56.
Errorf(charset, msg) == [charset |-> charset, msg |-> msg]

IsDisabled(e) == e # NilError /\ e.msg = DisabledMsg

IsUnsupported(e) == e # NilError /\ e.msg = UnsupportedMsg

IsLookupFailure(e) == e # NilError /\ e.msg \in {MimeInvalid, HtmlInvalid}

(***************************************************************************)
(* The quirks table and the resolver                                       *)
(***************************************************************************)

\* var charsets = map[string]encoding.Encoding{...}, lines 26-29.
SeedCharsets ==
    [k \in {AnsiName, Utf8jName} |->
        IF k = AnsiName THEN ISO8859_1 ELSE UTF8]

\* enc, ok := charsets[key], line 39.
Lookup(tbl, key) ==
    IF key \in DOMAIN tbl THEN [enc |-> tbl[key], ok |-> TRUE]
    ELSE [enc |-> Nil, ok |-> FALSE]

\* Lines 42-44: the first query, made on a miss only.
Step1(tbl, charset, env) ==
    LET l == Lookup(tbl, ToLower(charset))
    IN  IF ~l.ok
        THEN [enc |-> env.mime.enc, err |-> env.mime.err,
              queries |-> <<MimeQuery(charset)>>]
        ELSE [enc |-> l.enc, err |-> NilMsg, queries |-> <<>>]

\* Lines 45-47 with the first query's error kept when the second has none.
Step2Mutant(s, charset, env) ==
    IF s.enc = Nil
    THEN [enc |-> env.mimecs.enc,
          err |-> IF s.err # NilMsg THEN s.err ELSE env.mimecs.err,
          queries |-> Append(s.queries, CsQuery(charset))]
    ELSE s

\* Lines 45-47: the "cs" query, made when there is no codec yet.
Step2(s, charset, env) ==
    IF s.enc = Nil
    THEN [enc |-> env.mimecs.enc, err |-> env.mimecs.err,
          queries |-> Append(s.queries, CsQuery(charset))]
    ELSE s

\* Lines 48-50 made whatever the earlier queries found.
Step3Mutant(s, charset, env) ==
    [enc |-> env.html.enc, err |-> env.html.err,
     queries |-> Append(s.queries, HtmlQuery(charset))]

\* Lines 48-50: the HTML query, made when there is still no codec.
Step3(s, charset, env) ==
    IF s.enc = Nil
    THEN [enc |-> env.html.enc, err |-> env.html.err,
          queries |-> Append(s.queries, HtmlQuery(charset))]
    ELSE s

\* Lines 51-58 without the nil check of line 55.
FinishMutant(s, charset) ==
    IF s.err # NilMsg
    THEN [enc |-> Nil, err |-> Errorf(charset, s.err), queries |-> s.queries]
    ELSE [enc |-> s.enc, err |-> NilError, queries |-> s.queries]

\* Lines 51-58: the error, the nil check, the result.
Finish(s, charset) ==
    IF s.err # NilMsg
    THEN [enc |-> Nil, err |-> Errorf(charset, s.err), queries |-> s.queries]
    ELSE IF s.enc = Nil
    THEN [enc |-> Nil, err |-> Errorf(charset, UnsupportedMsg),
          queries |-> s.queries]
    ELSE [enc |-> s.enc, err |-> NilError, queries |-> s.queries]

\* Line 40 without the disabled check: a nil entry falls through.
IsDisabledEntryMutant(l) == FALSE

\* ok && enc == nil, line 40.
IsDisabledEntry(l) == l.ok /\ l.enc = Nil

\* charsetEncoding, lines 37-59.
charsetEncoding(tbl, charset, env) ==
    IF IsDisabledEntry(Lookup(tbl, ToLower(charset)))
    THEN [enc |-> Nil, err |-> Errorf(charset, DisabledMsg), queries |-> <<>>]
    ELSE Finish(Step3(Step2(Step1(tbl, charset, env), charset, env),
                      charset, env), charset)

(***************************************************************************)
(* The stream adapters                                                     *)
(***************************************************************************)

\* enc.NewDecoder().Reader(input), line 67.
NewDecoderReader(enc, input) == [kind |-> "decoder", enc |-> enc, under |-> input]

\* enc.NewEncoder().Writer(writer), line 76.
NewEncoderWriter(enc, writer) == [kind |-> "encoder", enc |-> enc, under |-> writer]

\* Reader that wraps the stream on the error path too.
ReaderMutant(tbl, charset, input, env) ==
    LET r == charsetEncoding(tbl, charset, env)
    IN  [stream |-> NewDecoderReader(r.enc, input), err |-> r.err, res |-> r]

\* Reader, lines 62-68.
Reader(tbl, charset, input, env) ==
    LET r == charsetEncoding(tbl, charset, env)
    IN  IF r.err # NilError
        THEN [stream |-> input, err |-> r.err, res |-> r]
        ELSE [stream |-> NewDecoderReader(r.enc, input), err |-> NilError, res |-> r]

\* Writer, lines 71-77.
Writer(tbl, charset, writer, env) ==
    LET r == charsetEncoding(tbl, charset, env)
    IN  IF r.err # NilError
        THEN [stream |-> writer, err |-> r.err, res |-> r]
        ELSE [stream |-> NewEncoderWriter(r.enc, writer), err |-> NilError, res |-> r]

\* RegisterEncoding that replaces the table by the one new entry.
RegisterMutant(tbl, name, enc) == [k \in {name} |-> enc]

\* charsets[name] = enc, line 82.
Register(tbl, name, enc) ==
    [k \in DOMAIN tbl \cup {name} |-> IF k = name THEN enc ELSE tbl[k]]

(***************************************************************************)
(* Sequential specification: calls made one after the other                *)
(***************************************************************************)

NoEnv ==
    [mime |-> [enc |-> Nil, err |-> NilMsg], mimecs |-> [enc |-> Nil, err |-> NilMsg],
     html |-> [enc |-> Nil, err |-> NilMsg]]

NoResult == [enc |-> Nil, err |-> NilError, queries |-> <<>>]

NoStream == [kind |-> "none"]

\* The record of the last completed call.
CallRecord(op, charset, in, enc, env, out) ==
    [op |-> op, charset |-> charset, in |-> in, enc |-> enc, env |-> env,
     res |-> out.res, stream |-> out.stream, err |-> out.err]

NoOut == [res |-> NoResult, stream |-> NoStream, err |-> NilError]

NoCall == CallRecord("none", <<>>, NoStream, Nil, NoEnv, NoOut)

Idle == <<>>

SeqInit ==
    /\ charsets = SeedCharsets
    /\ last = NoCall
    /\ pc = Idle /\ arg = Idle /\ seen = Idle /\ began = Idle
    /\ torn = {} /\ crashed = FALSE

ConcUnchanged == UNCHANGED <<pc, arg, seen, began, torn, crashed>>

CallReader ==
    /\ last.op = "none"
    /\ \E charset \in ResolveNames, input \in RawStreams, env \in Envs :
        /\ last' = CallRecord("Reader", charset, input, Nil, env,
                              Reader(charsets, charset, input, env))
        /\ UNCHANGED charsets
        /\ ConcUnchanged

CallWriter ==
    /\ last.op = "none"
    /\ \E charset \in ResolveNames, writer \in RawStreams, env \in Envs :
        /\ last' = CallRecord("Writer", charset, writer, Nil, env,
                              Writer(charsets, charset, writer, env))
        /\ UNCHANGED charsets
        /\ ConcUnchanged

CallRegisterEncoding ==
    /\ last.op = "none"
    /\ \E name \in RegNames, enc \in Codecs \cup {Nil} :
        /\ charsets' = Register(charsets, name, enc)
        /\ last' = CallRecord("RegisterEncoding", name, NoStream, enc, NoEnv, NoOut)
        /\ ConcUnchanged

\* The call has returned and the caller is done with what it returned: the
\* package retains nothing of a call but the table.
Return ==
    /\ last.op # "none"
    /\ last' = NoCall
    /\ UNCHANGED charsets
    /\ ConcUnchanged

Next == CallReader \/ CallWriter \/ CallRegisterEncoding \/ Return

Spec == SeqInit /\ [][Next]_vars

(***************************************************************************)
(* Concurrent specification: the same calls made by several goroutines.    *)
(* The code takes no lock (lines 39 and 82 access the map directly), and a *)
(* Go map access is not one atomic step: each access is an interval.  An   *)
(* access that overlaps a conflicting one is a data race, whose outcome is *)
(* any of those the runtime can produce: the old value, the new value, a   *)
(* miss, a lost update, or the runtime's fatal "concurrent map" error.     *)
(***************************************************************************)

\* The number of goroutines calling into the package.
NumThreads == 2

Threads == 1..NumThreads

ConcResolveNames == {Utf7Lower, Utf7Upper}

ConcRegNames == {Utf7Lower}

ConcEncs == {Nil, UTF8}

NoArg == [charset |-> <<>>, enc |-> Nil]

NoLookup == [enc |-> Nil, ok |-> FALSE]

NoSeen == [obs |-> NoLookup, before |-> NoLookup, after |-> NoLookup]

ConcInit ==
    /\ charsets = SeedCharsets
    /\ last = NoCall
    /\ pc = [t \in Threads |-> "idle"]
    /\ arg = [t \in Threads |-> NoArg]
    /\ seen = [t \in Threads |-> NoSeen]
    /\ began = [t \in Threads |-> NoLookup]
    /\ torn = {}
    /\ crashed = FALSE

\* charsetEncoding reaches line 39: the map read begins.
BeginResolve(t) ==
    /\ ~crashed /\ pc[t] = "idle"
    /\ \E charset \in ConcResolveNames :
        /\ arg' = [arg EXCEPT ![t] = [charset |-> charset, enc |-> Nil]]
        /\ began' = [began EXCEPT ![t] = Lookup(charsets, ToLower(charset))]
    /\ pc' = [pc EXCEPT ![t] = "reading"]
    /\ torn' = IF \E u \in Threads : pc[u] = "writing" THEN torn \cup {t} ELSE torn
    /\ UNCHANGED <<charsets, last, seen, crashed>>

\* Line 39 completes: enc, ok are what the read saw.
EndRead(t) ==
    /\ ~crashed /\ pc[t] = "reading"
    /\ LET now == Lookup(charsets, ToLower(arg[t].charset))
       IN  \E obs \in IF t \in torn THEN {began[t], now, NoLookup} ELSE {now} :
               seen' = [seen EXCEPT ![t] =
                           [obs |-> obs, before |-> began[t], after |-> now]]
    /\ pc' = [pc EXCEPT ![t] = "idle"]
    /\ torn' = torn \ {t}
    /\ UNCHANGED <<charsets, last, arg, began, crashed>>

\* RegisterEncoding reaches line 82: the map write begins.
BeginRegister(t) ==
    /\ ~crashed /\ pc[t] = "idle"
    /\ \E name \in ConcRegNames, enc \in ConcEncs :
        arg' = [arg EXCEPT ![t] = [charset |-> name, enc |-> enc]]
    /\ pc' = [pc EXCEPT ![t] = "writing"]
    /\ torn' = torn \cup {u \in Threads : pc[u] \in {"reading", "writing"}}
                    \cup (IF \E u \in Threads : pc[u] = "writing" THEN {t} ELSE {})
    /\ UNCHANGED <<charsets, last, seen, began, crashed>>

\* Line 82 completes.
EndRegister(t) ==
    /\ ~crashed /\ pc[t] = "writing"
    /\ \/ charsets' = Register(charsets, arg[t].charset, arg[t].enc)
       \/ t \in torn /\ UNCHANGED charsets
    /\ pc' = [pc EXCEPT ![t] = "idle"]
    /\ torn' = torn \ {t}
    /\ UNCHANGED <<last, arg, seen, began, crashed>>

\* The runtime detects the racing map access and ends the process.
Fatal(t) ==
    /\ ~crashed /\ t \in torn /\ pc[t] \in {"reading", "writing"}
    /\ crashed' = TRUE
    /\ UNCHANGED <<charsets, last, pc, arg, seen, began, torn>>

ConcNext ==
    \E t \in Threads :
        \/ BeginResolve(t)
        \/ EndRead(t)
        \/ BeginRegister(t)
        \/ EndRegister(t)
        \/ Fatal(t)

ConcSpec == ConcInit /\ [][ConcNext]_vars

(***************************************************************************)
(* Properties                                                              *)
(***************************************************************************)

UpperSet == DOMAIN LowerOf

IsLowerName(k) == \A i \in 1..Len(k) : k[i] \notin UpperSet

\* Two names that differ at most in the case of their letters.
SameIgnoringCase(a, b) ==
    /\ Len(a) = Len(b)
    /\ \A i \in 1..Len(a) : ToLowerCh(a[i]) = ToLowerCh(b[i])

\* The lowercase keys of the table that `name` spells in some letter case.
KeysOf(name) ==
    {k \in DOMAIN charsets : IsLowerName(k) /\ SameIgnoringCase(name, k)}

Resolved == last.op \in {"Reader", "Writer"}

\* The outcome the environment gives the query q of the last call.
OutcomeOf(q) ==
    IF q = MimeQuery(last.charset) THEN last.env.mime
    ELSE IF q = CsQuery(last.charset) THEN last.env.mimecs
    ELSE last.env.html

\* The outcomes of the queries the last call made, in the order made.
MadeOutcomes == [i \in 1..Len(last.res.queries) |-> OutcomeOf(last.res.queries[i])]

\* C1: after RegisterEncoding(name, codec) with a non-nil codec, resolving
\* that same name (as registered, in whatever letter case) returns exactly
\* the registered codec, whatever the indices would return.
C1_RegisteredNameResolves ==
    (Resolved /\ last.charset \in DOMAIN charsets
        /\ charsets[last.charset] \in Codecs)
    => (last.res.enc = charsets[last.charset] /\ last.res.err = NilError)

C3_AnyQueryErrorPropagates ==
    (Resolved /\ \E i \in 1..Len(MadeOutcomes) : MadeOutcomes[i].err # NilMsg)
    => /\ IsLookupFailure(last.res.err)
       /\ last.res.err.charset = last.charset
       /\ \E i \in 1..Len(MadeOutcomes) : last.res.err.msg = MadeOutcomes[i].err

\* C3 amended: the resolution fails with a LookupFailure exactly when the
\* last query it made returned an error, and the failure carries the
\* requested name and that error; the error of an earlier query is discarded
\* by the next query.
C3_LastQueryErrorPropagates ==
    Resolved =>
        LET n == Len(MadeOutcomes)
        IN  /\ IsLookupFailure(last.res.err) <=> (n > 0 /\ MadeOutcomes[n].err # NilMsg)
            /\ IsLookupFailure(last.res.err)
                  => /\ last.res.err = Errorf(last.charset, MadeOutcomes[n].err)
                     /\ last.err = last.res.err

\* The first query failed with an error, and the third one's error is the
\* one reported.
C3_Witness ==
    /\ Resolved
    /\ Len(last.res.queries) = 3
    /\ last.env.mime.err = MimeInvalid
    /\ last.res.err = Errorf(last.charset, HtmlInvalid)

\* No lowercase key for the name, and no query yields a codec.
Unrecognized ==
    /\ Resolved
    /\ KeysOf(last.charset) = {}
    /\ last.env.mime.enc = Nil /\ last.env.mimecs.enc = Nil /\ last.env.html.enc = Nil

\* C4 as stated: a name with no table entry that no index query recognizes
\* fails with "unsupported charset", not with a LookupFailure.
C4_UnrecognizedIsUnsupported ==
    Unrecognized => IsUnsupported(last.res.err)

\* C4 amended: a name with no table entry for which no query yields a codec
\* fails with "unsupported charset" when the last (HTML) query reports no
\* error, and with a LookupFailure carrying that error when it reports one;
\* never with Disabled; and no resolution succeeds with an absent codec.
C4_UnsupportedWhenLastQuerySilent ==
    /\ Unrecognized =>
          /\ last.env.html.err = NilMsg
                => last.res.err = Errorf(last.charset, UnsupportedMsg)
          /\ last.env.html.err # NilMsg
                => last.res.err = Errorf(last.charset, last.env.html.err)
          /\ ~IsDisabled(last.res.err)
          /\ last.res.enc = Nil
          /\ last.res.queries =
                <<MimeQuery(last.charset), CsQuery(last.charset), HtmlQuery(last.charset)>>
    /\ (Resolved /\ last.res.err = NilError) => last.res.enc \in Codecs

\* Unsupported although the two MIME queries reported errors.
C4_Witness ==
    /\ Unrecognized
    /\ last.env.mime.err = MimeInvalid /\ last.env.mimecs.err = MimeInvalid
    /\ last.env.html.err = NilMsg
    /\ IsUnsupported(last.err)

\* C5: on a table miss the queries are MIME(name), MIME("cs"+name),
\* HTML(name) in that order, each made only if every earlier one yielded no
\* codec, and the result is the codec of the first query that yields one.
C5_QueryOrder ==
    (Resolved /\ KeysOf(last.charset) = {}) =>
        LET order == <<MimeQuery(last.charset), CsQuery(last.charset),
                       HtmlQuery(last.charset)>>
            outs == <<last.env.mime, last.env.mimecs, last.env.html>>
            n == Len(last.res.queries)
        IN  /\ n \in 1..3
            /\ last.res.queries = SubSeq(order, 1, n)
            /\ \A i \in 1..(n - 1) : outs[i].enc = Nil
            /\ n < 3 => outs[n].enc \in Codecs
            /\ outs[n].enc \in Codecs
                  => (last.res.enc = outs[n].enc /\ last.res.err = NilError)

\* A name only the "cs" query knows: resolved at the second query although
\* the first reported an error and the HTML index has another codec.
C5_Witness ==
    /\ Resolved /\ KeysOf(last.charset) = {}
    /\ Len(last.res.queries) = 2
    /\ last.env.mime.err = MimeInvalid
    /\ last.res.enc = last.env.mimecs.enc
    /\ last.env.html.enc \in Codecs \ {last.res.enc}

\* C6: Reader and Writer return the stream they were given with a non-nil
\* error when resolution fails, and a new wrapping stream over it built from
\* the resolved non-nil codec with a nil error when it succeeds.
C6_AdapterResult ==
    Resolved =>
        LET r == charsetEncoding(charsets, last.charset, last.env)
            wrapped == IF last.op = "Reader" THEN NewDecoderReader(r.enc, last.in)
                       ELSE NewEncoderWriter(r.enc, last.in)
        IN  /\ r.err # NilError => (last.stream = last.in /\ last.err = r.err)
            /\ r.err = NilError
                  => (r.enc \in Codecs /\ last.stream = wrapped /\ last.err = NilError)
            /\ (last.stream \in RawStreams) <=> (last.err # NilError)

\* Reader failed and handed back the stream it was given.
C6_Witness ==
    /\ last.op = "Reader"
    /\ IsUnsupported(last.err)
    /\ last.stream = last.in

\* C7: for every lowercase key with a non-nil codec, resolving that name in
\* any mixture of upper and lower case returns exactly that codec and makes
\* no index query.
C7_LowercaseKeyResolves ==
    \A k \in DOMAIN charsets :
        (Resolved /\ IsLowerName(k) /\ charsets[k] \in Codecs
            /\ SameIgnoringCase(last.charset, k))
        => /\ last.res.enc = charsets[k]
           /\ last.res.err = NilError
           /\ last.res.queries = <<>>

\* "ANSI_X3.110-1983" resolved to ISO-8859-1 although the MIME index would
\* have answered UTF-8.
C7_Witness ==
    /\ Resolved
    /\ last.charset \in Variants(AnsiName) /\ IsLowerName(last.charset) = FALSE
    /\ last.charset[2] = "N" /\ last.charset[6] = "X"
    /\ last.res.enc = ISO8859_1
    /\ last.env.mime.enc = UTF8

\* C8: every key of the table is a lowercase string.
C8_KeysLowercase == \A k \in DOMAIN charsets : IsLowerName(k)

\* C9: Reader and Writer leave the table unchanged; RegisterEncoding sets
\* the entry under exactly the given name and leaves every other entry as it
\* was; no step removes a key.
C9_Frame ==
    [][/\ last'.op \in {"Reader", "Writer", "none"} => charsets' = charsets
       /\ last'.op = "RegisterEncoding"
             => /\ DOMAIN charsets' = DOMAIN charsets \cup {last'.charset}
                /\ charsets'[last'.charset] = last'.enc
                /\ \A k \in DOMAIN charsets \ {last'.charset} :
                       charsets'[k] = charsets[k]
       /\ DOMAIN charsets \subseteq DOMAIN charsets']_vars

\* A registration under a new name, with the seeds and an earlier
\* registration still in the table.
C9_Witness ==
    /\ last.op = "RegisterEncoding"
    /\ last.charset = Utf7Upper
    /\ Cardinality(DOMAIN charsets) = 4
    /\ charsets[Utf8jName] = Nil
    /\ charsets[AnsiName] = ISO8859_1

\* C10: no write of the table is in progress while another goroutine's read
\* or write of it is in progress, and every resolution observes the entry as
\* it was before or after each registration.
C10_NoConcurrentAccess ==
    /\ \A t \in DOMAIN pc : \A u \in DOMAIN pc \ {t} :
           pc[t] = "writing" => pc[u] \notin {"reading", "writing"}
    /\ \A t \in DOMAIN seen : seen[t].obs \in {seen[t].before, seen[t].after}
    /\ ~crashed

====
